---- MODULE Spec2Model ----
(***************************************************************************)
(* A model of the structured-logging facade github.com/sapaude/go-shims    *)
(* x/log: the context field store, the logger facade over the logrus       *)
(* engine, the caller hook and the global registry.                        *)
(***************************************************************************)
EXTENDS Integers, Sequences, FiniteSets, TLC

VARIABLES
    ctxs,          \* context values: ctxs[c] is the binding c layers over its parent
    bags,          \* heap of MetaData maps, bags[b] is the map with identity b
    made,          \* history: made[c] is the With* call that returned context c
    loggers,       \* heap of LogrusLogger values
    engines,       \* heap of logrus.Logger values made by logrus.New()
    std,           \* logrus.StandardLogger()
    mu,            \* mu[l]: the thread holding loggers[l].mu, 0 when free
    fs,            \* file system: fs[p] is the content of path p
    sinks,         \* what each stream writer has received
    pc,            \* pc[t]: where thread t is in the call it is making
    once,          \* globalLoggerOnce
    globalLogger,  \* the package variable, 0 when nil
    firstInit,     \* history: the first initialisation body that ran
    lastCall,      \* history: the most recent logging call
    newResult,     \* history: what the most recent NewLogger call returned
    seq,           \* history: seq[l] is the setters of logger l applied one at a time
    returned,      \* history: the values GetGlobalLogger calls have returned
    exited         \* the process has terminated (os.Exit or an unrecovered panic)

ctxVars == <<ctxs, bags, made>>
logVars == <<loggers, engines, std, mu>>
outVars == <<fs, sinks>>
regVars == <<once, globalLogger, firstInit>>
histVars == <<lastCall, newResult, seq, returned>>
vars == <<ctxs, bags, made, loggers, engines, std, mu, fs, sinks, pc, once,
          globalLogger, firstInit, lastCall, newResult, seq, returned, exited>>

(***************************************************************************)
(* Context field store                                                     *)
(***************************************************************************)

RequestIDKey == "request_id"
UserIDKey == "user_id"
TraceIDKey == "trace_id"
SpanIDKey == "span_id"
CustomFieldsKey == "custom_fields"

\* The inputs of the With* calls.
IDs == {"v1", "v2"}
CustomKeys == {"a", "request_id"}
CustomValues == {"1", "2"}

MaxCtx == 3

\* context.Background(): context 0, which binds nothing.
Background == 0

Contexts == 0..Len(ctxs)

NoValue == [ok |-> FALSE, val |-> "", bag |-> 0]

\* ctx.Value(key): the innermost binding of key in the chain from c outward.
RECURSIVE Value(_, _)
Value(c, key) ==
    IF c = Background THEN NoValue
    ELSE IF ctxs[c].key = key
         THEN [ok |-> TRUE, val |-> ctxs[c].val, bag |-> ctxs[c].bag]
         ELSE Value(ctxs[c].parent, key)

\* context.WithValue(ctx, key, val) for a string value.
WithValue(ctx, key, val) ==
    Append(ctxs, [parent |-> ctx, key |-> key, val |-> val, bag |-> 0])

EmptyMeta == [k \in {} |-> ""]

\* fields[key] = value on a map.
Put(fields, key, value) ==
    [k \in DOMAIN fields \cup {key} |-> IF k = key THEN value ELSE fields[k]]

\* A plausible slip: the entry is written into the bag the context already holds.
WithCustomFieldBagInPlace(ctx, key, value) ==
    LET old == Value(ctx, CustomFieldsKey)
    IN  IF ~old.ok
        THEN [heap |-> Append(bags, Put(EmptyMeta, key, value)), id |-> Len(bags) + 1]
        ELSE [heap |-> [bags EXCEPT ![old.bag] = Put(@, key, value)], id |-> old.bag]

\* The bag WithCustomField attaches: a new map, empty or a copy of the one bound
\* in ctx, with the entry written into it.
WithCustomFieldBag(ctx, key, value) ==
    LET old == Value(ctx, CustomFieldsKey)
        fields == IF ~old.ok
                  THEN EmptyMeta
                  ELSE [k \in DOMAIN bags[old.bag] |-> bags[old.bag][k]]
    IN  [heap |-> Append(bags, Put(fields, key, value)), id |-> Len(bags) + 1]

GetString(c, key) ==
    LET v == Value(c, key) IN [val |-> IF v.ok THEN v.val ELSE "", ok |-> v.ok]

GetRequestID(c) == GetString(c, RequestIDKey)
GetUserID(c) == GetString(c, UserIDKey)
GetTraceID(c) == GetString(c, TraceIDKey)
GetSpanID(c) == GetString(c, SpanIDKey)

\* GetCustomFields returns the bound map itself; fields is what it holds.
GetCustomFields(c) ==
    LET v == Value(c, CustomFieldsKey)
    IN  [bag |-> v.bag, fields |-> IF v.ok THEN bags[v.bag] ELSE EmptyMeta, ok |-> v.ok]

\* What the five readers return on context c.
Readers(c) ==
    [request_id |-> GetRequestID(c), user_id |-> GetUserID(c),
     trace_id |-> GetTraceID(c), span_id |-> GetSpanID(c),
     custom |-> [fields |-> GetCustomFields(c).fields, ok |-> GetCustomFields(c).ok]]

Made(op, parent, key, value) ==
    [op |-> op, parent |-> parent, key |-> key, value |-> value]

OtherVars == <<loggers, engines, std, mu, fs, sinks, pc, once, globalLogger,
               firstInit, lastCall, newResult, seq, returned, exited>>

WithString(max, op, key, ctx, id) ==
    /\ Len(ctxs) < max
    /\ ctxs' = WithValue(ctx, key, id)
    /\ made' = Append(made, Made(op, ctx, key, id))
    /\ UNCHANGED <<bags, OtherVars>>

\* A plausible slip: the user id is bound under the request id's key.
WithUserIDWrongKey(max, ctx, userID) ==
    WithString(max, "WithUserID", RequestIDKey, ctx, userID)

WithRequestID(max, ctx, reqID) ==
    WithString(max, "WithRequestID", RequestIDKey, ctx, reqID)

WithUserID(max, ctx, userID) ==
    WithString(max, "WithUserID", UserIDKey, ctx, userID)

WithTraceID(max, ctx, traceID) ==
    WithString(max, "WithTraceID", TraceIDKey, ctx, traceID)

WithSpanID(max, ctx, spanID) ==
    WithString(max, "WithSpanID", SpanIDKey, ctx, spanID)

WithCustomField(max, ctx, key, value) ==
    /\ Len(ctxs) < max
    /\ LET new == WithCustomFieldBag(ctx, key, value)
       IN  /\ bags' = new.heap
           /\ ctxs' = Append(ctxs, [parent |-> ctx, key |-> CustomFieldsKey,
                                    val |-> "", bag |-> new.id])
    /\ made' = Append(made, Made("WithCustomField", ctx, key, value))
    /\ UNCHANGED OtherVars

(***************************************************************************)
(* Config, the logrus engine and NewLogger                                 *)
(***************************************************************************)

\* logrus.Level: a lower number is a higher severity.
LevelNumber ==
    [panic |-> 0, fatal |-> 1, error |-> 2, warn |-> 3, info |-> 4, debug |-> 5,
     trace |-> 6]

Levels == {"panic", "fatal", "error", "warn", "info", "debug", "trace"}

\* The severities of the five logging methods.
MethodLevels == {"debug", "info", "warn", "error", "fatal"}

FormatText == "text"
FormatJSON == "json"

\* LogFormat is a string type: "" is its zero value.
Formats == {FormatText, FormatJSON, ""}

\* io.Writer values: nil is the zero value of Config.Output.
NilWriter == [file |-> FALSE, name |-> "nil"]
Stdout == [file |-> FALSE, name |-> "stdout"]
Stderr == [file |-> FALSE, name |-> "stderr"]
Buffer == [file |-> FALSE, name |-> "buf"]
FileWriter(path) == [file |-> TRUE, name |-> path]

Streams == {"stdout", "stderr", "buf"}

\* File paths: "app.log" can be opened for append, "/nodir/x.log" cannot.
Paths == {"app.log", "/nodir/x.log"}
Openable == {"app.log"}

DefaultTimestampFormat == "2006/01/02 15:04:05.000"

DefaultConfig ==
    [Level |-> "info", Format |-> FormatJSON, Output |-> Stdout, FilePath |-> "",
     EnableJSON |-> FALSE, JSONPretty |-> FALSE, ReportCaller |-> TRUE,
     TimestampFormat |-> DefaultTimestampFormat]

EchoCallerSkipFrames == 9
CallerSkipFrames == EchoCallerSkipFrames

\* NewCallerHook(skipFrames)
NewCallerHook(skipFrames) == [SkipFrames |-> skipFrames]

JSONFormatter(ts, pretty, noEscape) ==
    [kind |-> FormatJSON, TimestampFormat |-> ts, PrettyPrint |-> pretty,
     DisableHTMLEscape |-> noEscape, FullTimestamp |-> FALSE, ForceColors |-> FALSE]

TextFormatter(ts, full, colors) ==
    [kind |-> FormatText, TimestampFormat |-> ts, PrettyPrint |-> FALSE,
     DisableHTMLEscape |-> FALSE, FullTimestamp |-> full, ForceColors |-> colors]

\* logrus.New(), also the initial logrus.StandardLogger().
LogrusNew ==
    [level |-> "info", out |-> Stderr, formatter |-> TextFormatter("", FALSE, FALSE),
     hooks |-> <<>>]

\* os.OpenFile(path, O_CREATE|O_WRONLY|O_APPEND, 0666) on file system f.
OpenFile(f, path) ==
    IF path \in Openable
    THEN [err |-> FALSE, fs |-> [f EXCEPT ![path].exists = TRUE]]
    ELSE [err |-> TRUE, fs |-> f]

\* The formatter NewLogger installs for cfg.
NewLoggerFormatter(cfg) ==
    IF cfg.EnableJSON \/ cfg.Format = FormatJSON
    THEN JSONFormatter(cfg.TimestampFormat, cfg.JSONPretty, TRUE)
    ELSE TextFormatter(cfg.TimestampFormat, TRUE, TRUE)

NewLoggerHooks(cfg) ==
    IF cfg.ReportCaller THEN <<NewCallerHook(CallerSkipFrames)>> ELSE <<>>

\* A plausible slip: a file that cannot be opened falls back to cfg.Output.
NewLoggerSilentFallback(f, cfg) ==
    LET open == OpenFile(f, cfg.FilePath)
        out == IF cfg.FilePath # "" /\ ~open.err
               THEN FileWriter(cfg.FilePath) ELSE cfg.Output
    IN  [err |-> FALSE,
         fs |-> IF cfg.FilePath # "" THEN open.fs ELSE f,
         engine |-> [level |-> cfg.Level, out |-> out,
                     formatter |-> NewLoggerFormatter(cfg), hooks |-> NewLoggerHooks(cfg)],
         config |-> cfg]

\* NewLogger(cfg) on file system f: the error, the file system after the call, and
\* (when err is FALSE) the engine and the config of the LogrusLogger returned.
NewLogger(f, cfg) ==
    LET open == OpenFile(f, cfg.FilePath)
    IN  IF cfg.FilePath # "" /\ open.err
        THEN [err |-> TRUE, fs |-> f, engine |-> LogrusNew, config |-> cfg]
        ELSE [err |-> FALSE,
              fs |-> IF cfg.FilePath # "" THEN open.fs ELSE f,
              engine |-> [level |-> cfg.Level,
                          out |-> IF cfg.FilePath # ""
                                  THEN FileWriter(cfg.FilePath) ELSE cfg.Output,
                          formatter |-> NewLoggerFormatter(cfg),
                          hooks |-> NewLoggerHooks(cfg)],
              config |-> cfg]

\* The engine behind LogrusLogger l: engine 0 is logrus.StandardLogger().
EngineOf(l) == IF loggers[l].Logger = 0 THEN std ELSE engines[loggers[l].Logger]

\* logrus Logger.IsLevelEnabled(level)
IsLevelEnabled(engine, level) == LevelNumber[engine.level] >= LevelNumber[level]

(***************************************************************************)
(* Emission: context fields, the caller hook, the engine's level check     *)
(***************************************************************************)

\* A field value or a name is a sequence of tokens.
Str(s) == <<s>>

NoFields == [k \in {} |-> <<>>]

PredefinedKeys == {RequestIDKey, UserIDKey, TraceIDKey, SpanIDKey}

\* entry.WithField(key, value): a later value of a key replaces an earlier one.
WithFields(data, more) ==
    [k \in DOMAIN data \cup DOMAIN more |-> IF k \in DOMAIN more THEN more[k] ELSE data[k]]

\* addContextFields: the four predefined fields that are bound, then every entry
\* of the custom fields map.
addContextFields(ctx, data) ==
    LET bound == {k \in PredefinedKeys : GetString(ctx, k).ok}
        predefined == [k \in bound |-> Str(GetString(ctx, k).val)]
        custom == GetCustomFields(ctx)
        entries == [k \in DOMAIN custom.fields |-> Str(custom.fields[k])]
    IN  IF custom.ok
        THEN WithFields(WithFields(data, predefined), entries)
        ELSE WithFields(data, predefined)

\* A stack frame: the function's qualified name, its bare identifier, the place.
Frame(func, file, line) ==
    [func |-> func, short |-> <<func[Len(func)]>>, file |-> file, line |-> line]
NoFrame == [func |-> <<>>, short |-> <<>>, file |-> "", line |-> ""]

\* The frames of a logging call below the facade method, innermost first.
HookFrames ==
    << Frame(<<"log", ".", "(*CallerHook)", ".", "Fire">>, "caller_hook.go", "43"),
       Frame(<<"logrus", ".", "LevelHooks", ".", "Fire">>, "hooks.go", "28"),
       Frame(<<"logrus", ".", "(*Entry)", ".", "fireHooks">>, "entry.go", "280"),
       Frame(<<"logrus", ".", "(*Entry)", ".", "log">>, "entry.go", "242"),
       Frame(<<"logrus", ".", "(*Entry)", ".", "Log">>, "entry.go", "304"),
       Frame(<<"logrus", ".", "(*Entry)", ".", "Logf">>, "entry.go", "349"),
       Frame(<<"logrus", ".", "(*Entry)", ".", "Infof">>, "entry.go", "362") >>

\* The frame of the LogrusLogger method and of the package-level function.
MethodFrame ==
    Frame(<<"github", ".", "com", "/", "sapaude", "/", "log", ".", "(*LogrusLogger)",
            ".", "Infof">>, "logger.go", "98")
PackageFrame ==
    Frame(<<"github", ".", "com", "/", "sapaude", "/", "log", ".", "Infof">>,
          "global.go", "56")

\* A goroutine of the caller: Serve, called by main, started by the runtime.
Goroutine ==
    << Frame(<<"github", ".", "com", "/", "acme", "/", "svc", ".", "(*Handler)", ".",
               "Serve">>, "svc.go", "42"),
       Frame(<<"main", ".", "main">>, "main.go", "17"),
       Frame(<<"runtime", ".", "goexit">>, "asm.s", "1") >>

\* The stacks a logging call is made from: the caller's frame is the first.
UserStacks == {SubSeq(Goroutine, i, Len(Goroutine)) : i \in 1..(Len(Goroutine) - 1)}

EntryPoints == {"package", "method"}

\* The stack at CallerHook.Fire of a call entered at entryPoint from stack.
CallStack(entryPoint, stack) ==
    HookFrames \o <<MethodFrame>>
        \o (IF entryPoint = "package" THEN <<PackageFrame>> ELSE <<>>) \o stack

\* runtime.Caller(skip): frame 0 is the caller of runtime.Caller.
RuntimeCaller(stack, skip) ==
    IF skip + 1 <= Len(stack)
    THEN [ok |-> TRUE, frame |-> stack[skip + 1]]
    ELSE [ok |-> FALSE, frame |-> NoFrame]

\* strings.LastIndex(s, sep) + 1: 0 when sep does not occur.
LastIndex(s, sep) ==
    LET at == {i \in 1..Len(s) : s[i] = sep}
    IN  IF at = {} THEN 0 ELSE CHOOSE i \in at : \A j \in at : j <= i

AfterLast(s, sep) ==
    IF LastIndex(s, sep) # 0 THEN SubSeq(s, LastIndex(s, sep) + 1, Len(s)) ELSE s

CallerFileFieldKey == "file"
CallerFuncFieldKey == "func"

\* CallerHook.Fire on the entry's data.
Fire(hook, data, stack) ==
    LET caller == RuntimeCaller(stack, hook.SkipFrames)
        funcName == AfterLast(AfterLast(caller.frame.func, "/"), ".")
    IN  IF ~caller.ok THEN data
        ELSE WithFields(data,
                 [k \in {CallerFileFieldKey, CallerFuncFieldKey} |->
                     IF k = CallerFileFieldKey
                     THEN <<"file://", caller.frame.file, ":", caller.frame.line>>
                     ELSE funcName \o <<"()">>])

RECURSIVE FireHooks(_, _, _)
FireHooks(hooks, data, stack) ==
    IF hooks = <<>> THEN data
    ELSE FireHooks(Tail(hooks), Fire(Head(hooks), data, stack), stack)

\* What a logging method of logger l does at severity level with the entry's
\* data: the record, whether the engine emits it, and where.
LogOutcome(l, level, data, stack) ==
    LET e == EngineOf(l)
    IN  [emit |-> IsLevelEnabled(e, level),
         out |-> e.out,
         rec |-> [level |-> level, format |-> e.formatter.kind,
                  data |-> FireHooks(e.hooks, data, stack)]]

\* Writer.Write of one record.
WriteFS(out, rec) ==
    IF out.file THEN [fs EXCEPT ![out.name].lines = Append(@, rec)] ELSE fs
WriteSinks(out, rec) ==
    IF out.file THEN sinks ELSE [sinks EXCEPT ![out.name] = Append(@, rec)]

RECURSIVE SumLen(_, _)
SumLen(f, S) ==
    IF S = {} THEN 0
    ELSE LET x == CHOOSE y \in S : TRUE IN Len(f[x]) + SumLen(f, S \ {x})

\* A line a file holds before the program starts (from a trace-level call, which
\* the Logger interface does not offer).
OldLine == [level |-> "trace", format |-> "text", data |-> NoFields]

\* The number of records the program has written so far.
Written ==
    SumLen(sinks, Streams)
        + SumLen([p \in Paths |-> SelectSeq(fs[p].lines, LAMBDA r : r # OldLine)], Paths)

(***************************************************************************)
(* Threads                                                                 *)
(***************************************************************************)

Threads == {1, 2}

\* A thread that is making no call.
Idle ==
    [at |-> "idle", op |-> "", cfg |-> DefaultConfig, l |-> 0, level |-> "",
     out |-> NilWriter, format |-> "", aware |-> FALSE, ctx |-> 0, stack |-> <<>>]

At(t, where) == pc[t].at = where

Goto(t, where) == pc' = [pc EXCEPT ![t].at = where]

\* The sequential effect of the setters on a logger: its config and its engine.
SeqState(config, engine) ==
    [Level |-> config.Level, Output |-> config.Output, FilePath |-> config.FilePath,
     Format |-> config.Format, EnableJSON |-> config.EnableJSON,
     level |-> engine.level, out |-> engine.out, kind |-> engine.formatter.kind,
     swapped |-> FALSE]

\* The history of a logger: the sequential state now and, while a setter holds
\* the guard, before that setter.
History(s) == [now |-> s, pre |-> s]

\* The three settings of the engine in a sequential state.
Settings(s) == [level |-> s.level, out |-> s.out, kind |-> s.kind]

\* No SetLevel call on logger l is in flight.
LevelQuiet(l) == \A t \in Threads : ~(pc[t].op = "SetLevel" /\ pc[t].l = l)

\* A logging method of logger l called by thread t: the entry is built, the
\* hooks fire, the engine drops or writes the record; Fatalf then exits.
DoLog(t, l, level, aware, ctx, entryPoint, stack) ==
    LET data == IF aware THEN addContextFields(ctx, NoFields) ELSE NoFields
        o == LogOutcome(l, level, data, CallStack(entryPoint, stack))
        panics == o.emit /\ o.out = NilWriter
        written == o.emit /\ ~panics
    IN  /\ fs' = IF written THEN WriteFS(o.out, o.rec) ELSE fs
        /\ sinks' = IF written THEN WriteSinks(o.out, o.rec) ELSE sinks
        /\ lastCall' = [l |-> l, level |-> level,
                        aware |-> aware, ctx |-> ctx, entryPoint |-> entryPoint,
                        site |-> Head(stack), emitted |-> written, out |-> o.out,
                        rec |-> o.rec, pre |-> Settings(seq[l].pre),
                        now |-> Settings(seq[l].now),
                        quiet |-> LevelQuiet(l), held |-> mu[l] # 0]
        /\ exited' = (level = "fatal" /\ ~panics)
        /\ pc' = [pc EXCEPT ![t] = IF panics THEN [Idle EXCEPT !.at = "panicking"]
                                    ELSE Idle]

\* Debugf .. Fatalf and DebugContextf .. FatalContextf called on logger l.
LogMethod(t, l, level, aware, ctx, stack) ==
    /\ ~exited /\ At(t, "idle")
    /\ l \in DOMAIN loggers
    /\ l = globalLogger => l \in returned
    /\ DoLog(t, l, level, aware, ctx, "method", stack)
    /\ UNCHANGED <<ctxVars, logVars, regVars, newResult, seq, returned>>

\* A panic leaves the call: a deferred recover of the caller stops it, or the
\* process dies.
Unwind(t) ==
    /\ ~exited /\ At(t, "panicking")
    /\ \/ pc' = [pc EXCEPT ![t] = Idle] /\ UNCHANGED exited
       \/ exited' = TRUE /\ UNCHANGED pc
    /\ UNCHANGED <<ctxVars, logVars, outVars, regVars, histVars>>

(***************************************************************************)
(* NewLogger called by the application                                     *)
(***************************************************************************)

\* The heap after a LogrusLogger over a new engine is allocated.
AllocLogger(engine, config) ==
    /\ engines' = Append(engines, engine)
    /\ loggers' = Append(loggers, [Logger |-> Len(engines) + 1, config |-> config])
    /\ mu' = Append(mu, 0)
    /\ seq' = Append(seq, History(SeqState(config, engine)))

\* The application constructs its one logger instance (again after a failure).
CallNewLogger(cfg) ==
    /\ ~exited
    /\ loggers = <<>>
    /\ LET r == NewLogger(fs, cfg)
       IN  /\ fs' = r.fs
           /\ IF r.err
              THEN UNCHANGED <<engines, loggers, mu, seq>>
              ELSE AllocLogger(r.engine, r.config)
           /\ newResult' = [called |-> TRUE, err |-> r.err,
                            l |-> IF r.err THEN 0 ELSE Len(loggers) + 1,
                            cfg |-> cfg, out |-> r.engine.out,
                            before |-> IF cfg.FilePath = "" THEN [exists |-> FALSE, lines |-> <<>>]
                                       ELSE fs[cfg.FilePath]]
    /\ UNCHANGED <<ctxVars, std, sinks, pc, regVars, lastCall, returned, exited>>

(***************************************************************************)
(* The setters: SetLevel, SetOutput, SetFormatter                          *)
(***************************************************************************)

\* The engine of logger l replaced by e.
SetEngine(l, e) ==
    IF loggers[l].Logger = 0
    THEN std' = e /\ UNCHANGED engines
    ELSE engines' = [engines EXCEPT ![loggers[l].Logger] = e] /\ UNCHANGED std

\* A plausible slip: a setter that does not take the guard.
NoLock(l) == TRUE

\* l.mu.Lock() can proceed.
MuFree(l) == mu[l] = 0

\* The formatter SetFormatter installs.
SetFormatterFormatter(config, format) ==
    IF format = FormatJSON
    THEN JSONFormatter(config.TimestampFormat, config.JSONPretty, FALSE)
    ELSE TextFormatter(config.TimestampFormat, TRUE, TRUE)

\* The setter call c applied in one step to the sequential state s.
ApplySetter(s, c) ==
    IF c.op = "SetLevel" THEN [s EXCEPT !.Level = c.level, !.level = c.level]
    ELSE IF c.op = "SetOutput"
         THEN [s EXCEPT !.Output = c.out, !.FilePath = "", !.out = c.out, !.swapped = TRUE]
         ELSE [s EXCEPT !.Format = c.format, !.EnableJSON = (c.format = FormatJSON),
                        !.kind = IF c.format = FormatJSON THEN FormatJSON ELSE FormatText]

CallSetter(t, l, op, level, out, format) ==
    /\ ~exited /\ At(t, "idle")
    /\ l \in DOMAIN loggers
    /\ l = globalLogger => l \in returned
    /\ pc' = [pc EXCEPT ![t] = [Idle EXCEPT !.at = "lock", !.op = op, !.l = l,
                                             !.level = level, !.out = out,
                                             !.format = format]]
    /\ UNCHANGED <<ctxVars, logVars, outVars, regVars, histVars, exited>>

CallSetLevel(t, l, level) == CallSetter(t, l, "SetLevel", level, NilWriter, "")
CallSetOutput(t, l, out) == CallSetter(t, l, "SetOutput", "", out, "")
CallSetFormatter(t, l, format) == CallSetter(t, l, "SetFormatter", "", NilWriter, format)

\* l.mu.Lock()
MuLock(t) ==
    /\ ~exited /\ At(t, "lock")
    /\ MuFree(pc[t].l)
    /\ mu' = [mu EXCEPT ![pc[t].l] = t]
    /\ seq' = [seq EXCEPT ![pc[t].l] = [now |-> ApplySetter(@.now, pc[t]), pre |-> @.now]]
    /\ Goto(t, "first")
    /\ UNCHANGED <<ctxVars, loggers, engines, std, outVars, regVars, lastCall,
                   newResult, returned, exited>>

\* A plausible slip: SetLevel records the level and leaves the engine alone.
SetLevelConfigOnly(t) ==
    LET l == pc[t].l IN
    /\ ~exited /\ pc[t].op = "SetLevel"
    /\ \/ /\ At(t, "first")
          /\ Goto(t, "second")
          /\ UNCHANGED <<loggers, engines, std>>
       \/ /\ At(t, "second")
          /\ loggers' = [loggers EXCEPT ![l].config.Level = pc[t].level]
          /\ Goto(t, "unlock")
          /\ UNCHANGED <<engines, std>>
    /\ UNCHANGED <<ctxVars, mu, outVars, regVars, histVars, exited>>

\* The three statements of a setter after the lock, one step each.
SetLevel(t) ==
    LET l == pc[t].l IN
    /\ ~exited /\ pc[t].op = "SetLevel"
    /\ \/ /\ At(t, "first")
          /\ SetEngine(l, [EngineOf(l) EXCEPT !.level = pc[t].level])
          /\ Goto(t, "second")
          /\ UNCHANGED loggers
       \/ /\ At(t, "second")
          /\ loggers' = [loggers EXCEPT ![l].config.Level = pc[t].level]
          /\ Goto(t, "unlock")
          /\ UNCHANGED <<engines, std>>
    /\ UNCHANGED <<ctxVars, mu, outVars, regVars, histVars, exited>>

SetOutput(t) ==
    LET l == pc[t].l IN
    /\ ~exited /\ pc[t].op = "SetOutput"
    /\ \/ /\ At(t, "first")
          /\ SetEngine(l, [EngineOf(l) EXCEPT !.out = pc[t].out])
          /\ Goto(t, "second")
          /\ UNCHANGED loggers
       \/ /\ At(t, "second")
          /\ loggers' = [loggers EXCEPT ![l].config.Output = pc[t].out]
          /\ Goto(t, "third")
          /\ UNCHANGED <<engines, std>>
       \/ /\ At(t, "third")
          /\ loggers' = [loggers EXCEPT ![l].config.FilePath = ""]
          /\ Goto(t, "unlock")
          /\ UNCHANGED <<engines, std>>
    /\ UNCHANGED <<ctxVars, mu, outVars, regVars, histVars, exited>>

SetFormatter(t) ==
    LET l == pc[t].l IN
    /\ ~exited /\ pc[t].op = "SetFormatter"
    /\ \/ /\ At(t, "first")
          /\ loggers' = [loggers EXCEPT ![l].config.Format = pc[t].format]
          /\ Goto(t, "second")
          /\ UNCHANGED <<engines, std>>
       \/ /\ At(t, "second")
          /\ SetEngine(l, [EngineOf(l) EXCEPT
                               !.formatter = SetFormatterFormatter(loggers[l].config,
                                                                   pc[t].format)])
          /\ Goto(t, "third")
          /\ UNCHANGED loggers
       \/ /\ At(t, "third")
          /\ loggers' = [loggers EXCEPT
                            ![l].config.EnableJSON = (pc[t].format = FormatJSON)]
          /\ Goto(t, "unlock")
          /\ UNCHANGED <<engines, std>>
    /\ UNCHANGED <<ctxVars, mu, outVars, regVars, histVars, exited>>

\* The deferred l.mu.Unlock() and the return.
MuUnlock(t) ==
    /\ ~exited /\ At(t, "unlock")
    /\ mu' = [mu EXCEPT ![pc[t].l] = 0]
    /\ seq' = [seq EXCEPT ![pc[t].l] = History(@.now)]
    /\ pc' = [pc EXCEPT ![t] = Idle]
    /\ UNCHANGED <<ctxVars, loggers, engines, std, outVars, regVars, lastCall, newResult,
                   returned, exited>>

(***************************************************************************)
(* Global registry: globalLoggerOnce, InitGlobalLogger, GetGlobalLogger    *)
(***************************************************************************)

CallInitGlobalLogger(t, cfg) ==
    /\ ~exited /\ At(t, "idle")
    /\ pc' = [pc EXCEPT ![t] = [Idle EXCEPT !.at = "Do", !.op = "InitGlobalLogger",
                                             !.cfg = cfg]]
    /\ UNCHANGED <<ctxVars, logVars, outVars, regVars, histVars, exited>>

CallGetGlobalLogger(t) ==
    /\ ~exited /\ At(t, "idle")
    /\ pc' = [pc EXCEPT ![t] = [Idle EXCEPT !.at = "Do", !.op = "GetGlobalLogger",
                                             !.cfg = DefaultConfig]]
    /\ UNCHANGED <<ctxVars, logVars, outVars, regVars, histVars, exited>>

\* The package-level Debugf .. FatalContextf: GetGlobalLogger(), then its method.
CallPackageLog(t, level, aware, ctx, stack) ==
    /\ ~exited /\ At(t, "idle")
    /\ pc' = [pc EXCEPT ![t] = [Idle EXCEPT !.at = "Do", !.op = "Log",
                                             !.cfg = DefaultConfig, !.level = level,
                                             !.aware = aware, !.ctx = ctx,
                                             !.stack = stack]]
    /\ UNCHANGED <<ctxVars, logVars, outVars, regVars, histVars, exited>>

\* A plausible slip: InitGlobalLogger builds the logger outside the gate.
InitUngated(op) == op = "InitGlobalLogger" \/ ~once.done

\* globalLoggerOnce.Do runs the body of a call of op, checked under the gate's lock.
OnceRuns(op) == ~once.done

\* globalLoggerOnce.Do: the gate is passed when the initialisation is done.
OnceDo(t) ==
    /\ ~exited /\ At(t, "Do")
    /\ Goto(t, IF once.done THEN "after" ELSE "doSlow")
    /\ UNCHANGED <<ctxVars, logVars, outVars, regVars, histVars, exited>>

\* The gate's lock is taken; the body runs when the initialisation is not done.
OnceLock(t) ==
    /\ ~exited /\ At(t, "doSlow")
    /\ once.m = 0
    /\ IF OnceRuns(pc[t].op)
       THEN once' = [once EXCEPT !.m = t] /\ Goto(t, "body")
       ELSE UNCHANGED once /\ Goto(t, "after")
    /\ UNCHANGED <<ctxVars, logVars, outVars, globalLogger, firstInit, histVars, exited>>

\* logrus.Errorf on the standard logger, whose output is out.
FallbackReport(out) ==
    [level |-> "error", format |-> std.formatter.kind, data |-> NoFields]

\* The body InitGlobalLogger and GetGlobalLogger pass to the gate.
InitBody(t) ==
    /\ ~exited /\ At(t, "body")
    /\ LET cfg == pc[t].cfg
           r == NewLogger(fs, cfg)
           panics == r.err /\ cfg.Output = NilWriter
       IN  /\ IF ~r.err
              THEN /\ AllocLogger(r.engine, r.config)
                   /\ globalLogger' = Len(loggers) + 1
                   /\ fs' = r.fs
                   /\ UNCHANGED <<std, sinks>>
              ELSE /\ std' = [std EXCEPT !.out = cfg.Output, !.level = "error"]
                   /\ UNCHANGED engines
                   /\ IF panics
                      THEN UNCHANGED <<loggers, mu, seq, globalLogger, fs, sinks>>
                      ELSE /\ sinks' = WriteSinks(cfg.Output, FallbackReport(cfg.Output))
                           /\ fs' = WriteFS(cfg.Output, FallbackReport(cfg.Output))
                           /\ loggers' = Append(loggers, [Logger |-> 0, config |-> cfg])
                           /\ mu' = Append(mu, 0)
                           /\ seq' = Append(seq, History(SeqState(cfg, std')))
                           /\ globalLogger' = Len(loggers) + 1
           /\ firstInit' = IF firstInit.ran THEN firstInit
                           ELSE [ran |-> TRUE, op |-> pc[t].op, cfg |-> cfg,
                                 err |-> r.err, panicked |-> panics]
           /\ Goto(t, IF panics THEN "bodyPanic" ELSE "bodyDone")
    /\ UNCHANGED <<ctxVars, once, lastCall, newResult, returned, exited>>

\* The gate's deferred done.Store(1) and Unlock, also when the body panicked.
OnceDone(t) ==
    /\ ~exited /\ (At(t, "bodyDone") \/ At(t, "bodyPanic"))
    /\ once' = [done |-> TRUE, m |-> 0]
    /\ Goto(t, IF At(t, "bodyPanic") THEN "panicking" ELSE "after")
    /\ UNCHANGED <<ctxVars, logVars, outVars, globalLogger, firstInit, histVars, exited>>

\* After the gate: InitGlobalLogger returns, GetGlobalLogger returns globalLogger,
\* a package-level function calls the method of what GetGlobalLogger returned.
Return(t) ==
    /\ ~exited /\ At(t, "after")
    /\ IF pc[t].op = "InitGlobalLogger"
       THEN /\ pc' = [pc EXCEPT ![t] = Idle]
            /\ UNCHANGED <<outVars, histVars, exited>>
       ELSE /\ returned' = returned \cup {globalLogger}
            /\ IF pc[t].op = "GetGlobalLogger"
               THEN /\ pc' = [pc EXCEPT ![t] = Idle]
                    /\ UNCHANGED <<outVars, lastCall, exited>>
               ELSE IF globalLogger = 0
                    THEN /\ pc' = [pc EXCEPT ![t] = [Idle EXCEPT !.at = "panicking"]]
                         /\ UNCHANGED <<outVars, lastCall, exited>>
                    ELSE DoLog(t, globalLogger, pc[t].level, pc[t].aware, pc[t].ctx,
                               "package", pc[t].stack)
            /\ UNCHANGED <<newResult, seq>>
    /\ UNCHANGED <<ctxVars, logVars, regVars>>

(***************************************************************************)
(* Initial states                                                          *)
(***************************************************************************)

NoCall ==
    [l |-> 0, level |-> "", aware |-> FALSE, ctx |-> 0, entryPoint |-> "",
     site |-> NoFrame, emitted |-> FALSE, out |-> NilWriter,
     rec |-> [level |-> "", format |-> "", data |-> NoFields],
     pre |-> Settings(SeqState(DefaultConfig, LogrusNew)),
     now |-> Settings(SeqState(DefaultConfig, LogrusNew)),
     quiet |-> TRUE, held |-> FALSE]

NoResult ==
    [called |-> FALSE, err |-> FALSE, l |-> 0, cfg |-> DefaultConfig,
     out |-> NilWriter, before |-> [exists |-> FALSE, lines |-> <<>>]]

NoFile == [exists |-> FALSE, lines |-> <<>>]

\* The state of a process that has made no call: "app.log" may exist already.
InitProcess ==
    /\ ctxs = <<>> /\ bags = <<>> /\ made = <<>>
    /\ loggers = <<>> /\ engines = <<>> /\ std = LogrusNew /\ mu = <<>>
    /\ fs \in {[p \in Paths |-> NoFile],
               [p \in Paths |-> IF p = "app.log"
                                THEN [exists |-> TRUE, lines |-> <<OldLine>>]
                                ELSE NoFile]}
    /\ sinks = [w \in Streams |-> <<>>]
    /\ pc = [t \in Threads |-> Idle]
    /\ once = [done |-> FALSE, m |-> 0]
    /\ globalLogger = 0
    /\ firstInit = [ran |-> FALSE, op |-> "", cfg |-> DefaultConfig, err |-> FALSE,
                    panicked |-> FALSE]
    /\ lastCall = NoCall
    /\ newResult = NoResult
    /\ seq = <<>>
    /\ returned = {}
    /\ exited = FALSE

(***************************************************************************)
(* The context field store alone                                           *)
(***************************************************************************)

Init == InitProcess /\ fs = [p \in Paths |-> NoFile]

Next ==
    \/ \E ctx \in Contexts, id \in IDs : WithRequestID(MaxCtx, ctx, id)
    \/ \E ctx \in Contexts, id \in IDs : WithUserID(MaxCtx, ctx, id)
    \/ \E ctx \in Contexts, id \in IDs : WithTraceID(MaxCtx, ctx, id)
    \/ \E ctx \in Contexts, id \in IDs : WithSpanID(MaxCtx, ctx, id)
    \/ \E ctx \in Contexts, k \in CustomKeys, v \in CustomValues :
          WithCustomField(MaxCtx, ctx, k, v)

Spec == Init /\ [][Next]_vars

\* The context a With* call was made on, and the chain of a context.
Parent(c) == made[c].parent

RECURSIVE Ancestors(_)
Ancestors(c) == IF c = Background THEN {} ELSE {Parent(c)} \cup Ancestors(Parent(c))

\* The custom fields a context must hold by the calls that made it.
RECURSIVE CalledFields(_)
CalledFields(c) ==
    IF c = Background THEN EmptyMeta
    ELSE IF made[c].op = "WithCustomField"
         THEN Put(CalledFields(Parent(c)), made[c].key, made[c].value)
         ELSE CalledFields(Parent(c))

CustomNodes == {c \in 1..Len(ctxs) : made[c].op = "WithCustomField"}

\* C3: a field added or overwritten on one branch never shows in another branch
\* or in the ancestor: every context reads exactly the fields of the
\* WithCustomField calls on its own chain, each WithCustomField attaches a bag no
\* other context holds, with the prior entries and the new one, and no step
\* changes a bag that exists.
C3_BranchIsolation ==
    /\ [](/\ \A c \in Contexts : GetCustomFields(c).fields = CalledFields(c)
          /\ \A c \in CustomNodes :
                /\ bags[ctxs[c].bag] =
                       Put(CalledFields(Parent(c)), made[c].key, made[c].value)
                /\ \A d \in CustomNodes : d # c => ctxs[d].bag # ctxs[c].bag)
    /\ [][\A b \in DOMAIN bags : bags'[b] = bags[b]]_vars

\* Two contexts made from the same context that holds k: one overwrote k and
\* reads the new value, the other and the ancestor still read the old one.
C3_Witness ==
    \E a \in CustomNodes, c1 \in 1..Len(ctxs), c2 \in CustomNodes :
        /\ c1 # c2 /\ Parent(c1) = a /\ Parent(c2) = a
        /\ made[c2].key = made[a].key /\ made[c2].value # made[a].value
        /\ GetCustomFields(c1).fields[made[a].key] = made[a].value
        /\ GetCustomFields(a).fields[made[a].key] = made[a].value
        /\ GetCustomFields(c2).fields[made[a].key] = made[c2].value

ReaderOf ==
    [WithRequestID |-> "request_id", WithUserID |-> "user_id",
     WithTraceID |-> "trace_id", WithSpanID |-> "span_id"]

NotFound == [val |-> "", ok |-> FALSE]

\* C4: a derived context reads its own binding and, for every other key, what
\* its parent reads (so the innermost binding wins and ancestors are unchanged
\* by their descendants); a reader finds nothing when no call on the chain
\* bound its key.
C4_DerivedBindings ==
    /\ \A k \in DOMAIN Readers(Background) :
           ~Readers(Background)[k].ok
    /\ \A c \in 1..Len(ctxs) :
        LET m == made[c]
            own == Readers(c)
            up == Readers(Parent(c))
        IN  IF m.op = "WithCustomField"
            THEN /\ own.custom.ok
                 /\ own.custom.fields[m.key] = m.value
                 /\ DOMAIN own.custom.fields = DOMAIN up.custom.fields \cup {m.key}
                 /\ \A k \in DOMAIN up.custom.fields \ {m.key} :
                        own.custom.fields[k] = up.custom.fields[k]
                 /\ \A k \in DOMAIN ReaderOf : own[ReaderOf[k]] = up[ReaderOf[k]]
            ELSE /\ own[ReaderOf[m.op]] = [val |-> m.value, ok |-> TRUE]
                 /\ \A k \in DOMAIN own \ {ReaderOf[m.op]} : own[k] = up[k]
    /\ \A c \in Contexts, op \in DOMAIN ReaderOf :
           (\A a \in (Ancestors(c) \cup {c}) \ {Background} : made[a].op # op)
               => Readers(c)[ReaderOf[op]] = NotFound
    /\ \A c \in Contexts :
           (\A a \in (Ancestors(c) \cup {c}) \ {Background} : made[a].op # "WithCustomField")
               => ~Readers(c).custom.ok

\* A context three calls deep that rebinds the request id of its grandparent,
\* holds a custom field, and has no span id.
C4_Witness ==
    \E c \in 1..Len(ctxs) :
        /\ made[c].op = "WithRequestID"
        /\ Parent(c) # Background /\ Parent(Parent(c)) # Background
        /\ made[Parent(Parent(c))].op = "WithRequestID"
        /\ made[Parent(c)].op = "WithCustomField"
        /\ GetRequestID(c).val # GetRequestID(Parent(c)).val
        /\ GetRequestID(Parent(c)).val = made[Parent(Parent(c))].value
        /\ GetCustomFields(c).ok
        /\ ~GetSpanID(c).ok

(***************************************************************************)
(* One logger instance: construction, thresholds                           *)
(***************************************************************************)

MaxLoggerRecords == 1

With(cfg, level, output, path) ==
    [cfg EXCEPT !.Level = level, !.Output = output, !.FilePath = path,
                !.ReportCaller = FALSE]

\* The configs NewLogger is called with.
LoggerConfigs ==
    {With(DefaultConfig, level, output, path) :
        level \in MethodLevels, output \in {Stdout, Buffer}, path \in Paths \cup {""}}

\* The stack the application logs from.
ServeStack == Goroutine

InitLogger == InitProcess

NextLogger ==
    \/ \E cfg \in LoggerConfigs : CallNewLogger(cfg)
    \/ \E l \in DOMAIN loggers, level \in MethodLevels : CallSetLevel(1, l, level)
    \/ MuLock(1)
    \/ SetLevel(1)
    \/ MuUnlock(1)
    \/ \E l \in DOMAIN loggers, level \in MethodLevels :
          Written < MaxLoggerRecords /\ LogMethod(1, l, level, FALSE, Background, ServeStack)

SpecLogger == InitLogger /\ [][NextLogger]_vars

IsPrefix(s, t) == Len(s) <= Len(t) /\ SubSeq(t, 1, Len(s)) = s

\* What writer out has received.
Received(out) == IF out.file THEN fs[out.name].lines ELSE sinks[out.name]

ConfiguredOutput(cfg) ==
    IF cfg.FilePath # "" THEN FileWriter(cfg.FilePath) ELSE cfg.Output

\* C8: NewLogger with a FilePath that cannot be opened returns an error and no
\* logger, and nothing is written anywhere; otherwise it returns a logger and no
\* error, whose records go to the file (created if absent, what it held kept)
\* or, with no FilePath, to cfg.Output.
C8_Construction ==
    newResult.called =>
        IF newResult.cfg.FilePath # "" /\ newResult.cfg.FilePath \notin Openable
        THEN /\ newResult.err /\ newResult.l = 0
             /\ loggers = <<>>
             /\ \A w \in Streams : sinks[w] = <<>>
             /\ ~fs[newResult.cfg.FilePath].exists
        ELSE /\ ~newResult.err /\ newResult.l \in DOMAIN loggers
             /\ newResult.out = ConfiguredOutput(newResult.cfg)
             /\ newResult.cfg.FilePath # "" =>
                    /\ fs[newResult.cfg.FilePath].exists
                    /\ IsPrefix(newResult.before.lines, fs[newResult.cfg.FilePath].lines)
             /\ lastCall.emitted =>
                    /\ lastCall.out = ConfiguredOutput(newResult.cfg)
                    /\ Received(ConfiguredOutput(newResult.cfg)) # <<>>
                    /\ Received(ConfiguredOutput(newResult.cfg))
                           [Len(Received(ConfiguredOutput(newResult.cfg)))] = lastCall.rec
                    /\ \A w \in Streams :
                           [file |-> FALSE, name |-> w] # ConfiguredOutput(newResult.cfg)
                               => sinks[w] = <<>>

\* A logger built over a file that already held a line appended a record to it.
C8_Witness ==
    /\ newResult.called /\ ~newResult.err
    /\ newResult.cfg.FilePath = "app.log"
    /\ newResult.before.lines = <<OldLine>>
    /\ lastCall.emitted
    /\ fs["app.log"].lines = <<OldLine, lastCall.rec>>

(***************************************************************************)
(* Concurrent reconfiguration of one logger instance                       *)
(***************************************************************************)

MaxSetterRecords == 1

\* The configs the reconfigured logger was built from.
SetterConfigs ==
    {[DefaultConfig EXCEPT !.ReportCaller = FALSE, !.Format = FormatText,
                           !.FilePath = "app.log"]}

\* The arguments of the setter calls.
SetterLevels == {"debug", "error"}
SetterOutputs == {Buffer}
SetterFormats == {FormatText, FormatJSON}

\* The state after NewLogger(cfg) returned the logger, for a cfg of cfgs.
InitWithLogger(cfgs) ==
    /\ ctxs = <<>> /\ bags = <<>> /\ made = <<>>
    /\ std = LogrusNew
    /\ \E cfg \in cfgs :
          LET r == NewLogger([p \in Paths |-> NoFile], cfg)
          IN  /\ fs = r.fs
              /\ engines = <<r.engine>>
              /\ loggers = <<[Logger |-> 1, config |-> r.config]>>
              /\ seq = <<History(SeqState(r.config, r.engine))>>
              /\ newResult = [called |-> TRUE, err |-> r.err, l |-> 1, cfg |-> cfg,
                              out |-> r.engine.out, before |-> NoFile]
    /\ mu = <<0>>
    /\ sinks = [w \in Streams |-> <<>>]
    /\ pc = [t \in Threads |-> Idle]
    /\ once = [done |-> FALSE, m |-> 0]
    /\ globalLogger = 0
    /\ firstInit = [ran |-> FALSE, op |-> "", cfg |-> DefaultConfig, err |-> FALSE,
                    panicked |-> FALSE]
    /\ lastCall = NoCall
    /\ returned = {}
    /\ exited = FALSE

InitSetters == InitWithLogger(SetterConfigs)

NextSetters ==
    \/ \E t \in Threads, level \in SetterLevels : CallSetLevel(t, 1, level)
    \/ \E t \in Threads, out \in SetterOutputs : CallSetOutput(t, 1, out)
    \/ \E t \in Threads, format \in SetterFormats : CallSetFormatter(t, 1, format)
    \/ \E t \in Threads : MuLock(t)
    \/ \E t \in Threads : SetLevel(t)
    \/ \E t \in Threads : SetOutput(t)
    \/ \E t \in Threads : SetFormatter(t)
    \/ \E t \in Threads : MuUnlock(t)
    \/ \E t \in Threads :
          Written < MaxSetterRecords /\ LogMethod(t, 1, "info", FALSE, Background, ServeStack)

SpecSetters == InitSetters /\ [][NextSetters]_vars

\* Thread t is between l.mu.Lock() and the deferred Unlock of a setter of l.
InUpdate(t, l) == pc[t].l = l /\ pc[t].at \in {"first", "second", "third", "unlock"}

\* Thread t is in a setter call on l.
InSetter(t, l) == pc[t].l = l /\ pc[t].op \in {"SetLevel", "SetOutput", "SetFormatter"}

\* The format a config asks for.
ConfiguredKind(config) ==
    IF config.EnableJSON \/ config.Format = FormatJSON THEN FormatJSON ELSE FormatText

\* C9: no two setters of a logger are inside their update at once; when every
\* setter has returned, the stored config and the engine agree and are what the
\* calls give applied one at a time in the order they took the guard; a logging
\* call can be made while a setter holds the guard, and the record it emits has
\* the format of the engine before or after that setter.
C9_Setters ==
    \A l \in DOMAIN loggers :
        /\ \A t1 \in Threads, t2 \in Threads :
               (InUpdate(t1, l) /\ InUpdate(t2, l)) => t1 = t2
        /\ (\A t \in Threads : ~InSetter(t, l)) =>
               /\ SeqState(loggers[l].config, EngineOf(l)) =
                      [seq[l].now EXCEPT !.swapped = FALSE]
               /\ EngineOf(l).level = loggers[l].config.Level
               /\ EngineOf(l).out = ConfiguredOutput(loggers[l].config)
               /\ EngineOf(l).formatter.kind = ConfiguredKind(loggers[l].config)
               /\ seq[l].now.swapped => loggers[l].config.FilePath = ""
        /\ \A t \in Threads :
               (mu[l] # 0 /\ At(t, "idle")) =>
                   ENABLED LogMethod(t, l, "info", FALSE, Background, ServeStack)
        /\ (lastCall.l = l /\ lastCall.emitted) =>
               /\ lastCall.rec.format \in {lastCall.pre.kind, lastCall.now.kind}
               /\ lastCall.out \in {lastCall.pre.out, lastCall.now.out}
        /\ lastCall.l = l =>
               \/ lastCall.emitted = (LevelNumber[lastCall.level]
                                         <= LevelNumber[lastCall.pre.level])
               \/ lastCall.emitted = (LevelNumber[lastCall.level]
                                         <= LevelNumber[lastCall.now.level])

\* Both threads called setters, a record was emitted while one of them held the
\* guard, and every setter has returned with the output swapped.
C9_Witness ==
    /\ lastCall.emitted /\ lastCall.held
    /\ \A t \in Threads : ~InSetter(t, 1)
    /\ seq[1].now.swapped
    /\ seq[1].now.Level # newResult.cfg.Level
    /\ seq[1].now.kind # ConfiguredKind(newResult.cfg)

(***************************************************************************)
(* The global registry under concurrent first calls                        *)
(***************************************************************************)

MaxRegistryRecords == 1

\* The configs InitGlobalLogger is called with: Output is nil where the caller
\* set a FilePath and nothing else.
RegistryConfigs ==
    {[DefaultConfig EXCEPT !.Level = "debug", !.Format = FormatText],
     [DefaultConfig EXCEPT !.Level = "warn", !.EnableJSON = TRUE],
     [DefaultConfig EXCEPT !.Level = "debug", !.FilePath = "/nodir/x.log"],
     [DefaultConfig EXCEPT !.Level = "warn", !.FilePath = "/nodir/x.log",
                           !.Output = NilWriter],
     [DefaultConfig EXCEPT !.Level = "warn", !.FilePath = "app.log",
                           !.Output = NilWriter]}

InitRegistry == InitProcess /\ fs = [p \in Paths |-> NoFile]

NextRegistry ==
    \/ \E t \in Threads, cfg \in RegistryConfigs : CallInitGlobalLogger(t, cfg)
    \/ \E t \in Threads : CallGetGlobalLogger(t)
    \/ \E t \in Threads :
          Written < MaxRegistryRecords
              /\ CallPackageLog(t, "error", FALSE, Background, ServeStack)
    \/ \E t \in Threads : OnceDo(t)
    \/ \E t \in Threads : OnceLock(t)
    \/ \E t \in Threads : InitBody(t)
    \/ \E t \in Threads : OnceDone(t)
    \/ \E t \in Threads : Return(t)
    \/ \E t \in Threads : Unwind(t)

SpecRegistry == InitRegistry /\ [][NextRegistry]_vars

\* Once the gate is passed, what the package variable holds.
Initialised == once.done /\ firstInit.ran

\* The statement of C1 as claimed: the global logger's level and format are
\* those of the first call's config, whatever that config is.
C1_AsClaimed ==
    /\ Cardinality(returned) <= 1
    /\ Len(loggers) <= 1
    /\ (Initialised /\ globalLogger # 0) =>
           /\ loggers[globalLogger].config = firstInit.cfg
           /\ EngineOf(globalLogger).level = firstInit.cfg.Level
           /\ EngineOf(globalLogger).formatter.kind = ConfiguredKind(firstInit.cfg)

\* C1 (amended): only the first initialisation builds a logger, every
\* GetGlobalLogger call returns the same value, and with no setter called: when
\* the first call's config constructs, the global logger's config, level and
\* format are that config's (info and JSON when the first call was
\* GetGlobalLogger); when it does not and a fallback is installed, the fallback
\* keeps the config but its level is error and its format the standard
\* logger's text.
C1_FirstCallWins ==
    /\ Cardinality(returned) <= 1
    /\ Len(loggers) <= 1
    /\ (Initialised /\ globalLogger # 0) =>
           /\ loggers[globalLogger].config = firstInit.cfg
           /\ IF ~firstInit.err
              THEN /\ EngineOf(globalLogger).level = firstInit.cfg.Level
                   /\ EngineOf(globalLogger).formatter.kind = ConfiguredKind(firstInit.cfg)
              ELSE /\ EngineOf(globalLogger).level = "error"
                   /\ EngineOf(globalLogger).formatter.kind = FormatText
           /\ firstInit.op # "InitGlobalLogger" =>
                 /\ EngineOf(globalLogger).level = "info"
                 /\ EngineOf(globalLogger).formatter.kind = FormatJSON

\* InitGlobalLogger ran first with a text config at debug level, a later
\* InitGlobalLogger with another config has returned, and GetGlobalLogger has
\* returned the logger of the first.
C1_Witness ==
    /\ Initialised /\ firstInit.op = "InitGlobalLogger" /\ ~firstInit.err
    /\ firstInit.cfg.Level = "debug" /\ firstInit.cfg.Format = FormatText
    /\ globalLogger \in returned
    /\ EngineOf(globalLogger).level = "debug"
    /\ \E t \in Threads :
           /\ At(t, "after") /\ pc[t].op = "InitGlobalLogger"
           /\ pc[t].cfg # firstInit.cfg

\* C2: under concurrent first calls the body runs once and no GetGlobalLogger
\* call returns nil or two different loggers.
C2_ExactlyOnce ==
    /\ Len(loggers) <= 1
    /\ Cardinality(returned) <= 1
    /\ 0 \notin returned
    /\ \A l \in returned : l \in DOMAIN loggers /\ l = globalLogger

\* C7: when construction fails in the global initialisation, no call ends in a
\* panic, and once the gate is passed the package variable holds a fallback
\* logger at error level, which is what GetGlobalLogger returns.
C7_FallbackAvailable ==
    (firstInit.ran /\ firstInit.err) =>
        /\ \A t \in Threads : ~At(t, "bodyPanic") /\ ~At(t, "panicking")
        /\ ~exited
        /\ once.done =>
              /\ globalLogger # 0
              /\ EngineOf(globalLogger).level = "error"
              /\ returned \subseteq {globalLogger}

(***************************************************************************)
(* Context fields in the records                                           *)
(***************************************************************************)

MaxFieldsCtx == 2
MaxFieldsRecords == 1

FieldsIDs == {"v1"}
FieldsKeys == {"a", "request_id", "file"}
FieldsValues == {"2"}

\* The state after NewLogger returned a logger at debug level, with or without
\* caller reporting.
FieldsConfigs ==
    {[DefaultConfig EXCEPT !.Level = "debug", !.ReportCaller = report] :
        report \in BOOLEAN}

InitFields == InitWithLogger(FieldsConfigs)

NextFields ==
    \/ \E ctx \in Contexts, id \in FieldsIDs : WithRequestID(MaxFieldsCtx, ctx, id)
    \/ \E ctx \in Contexts, id \in FieldsIDs : WithUserID(MaxFieldsCtx, ctx, id)
    \/ \E ctx \in Contexts, id \in FieldsIDs : WithTraceID(MaxFieldsCtx, ctx, id)
    \/ \E ctx \in Contexts, id \in FieldsIDs : WithSpanID(MaxFieldsCtx, ctx, id)
    \/ \E ctx \in Contexts, k \in FieldsKeys, v \in FieldsValues :
          WithCustomField(MaxFieldsCtx, ctx, k, v)
    \/ \E level \in MethodLevels, aware \in BOOLEAN, ctx \in Contexts :
          Written < MaxFieldsRecords /\ LogMethod(1, 1, level, aware, ctx, ServeStack)

SpecFields == InitFields /\ [][NextFields]_vars

\* C5: the record of a *Contextf call carries every bound predefined field with
\* its bound value and every entry of the custom fields, and nothing for a key
\* that ctx binds in neither way; the record of a call without context carries
\* no context field.
C5_ContextFields ==
    lastCall.emitted =>
        LET data == lastCall.rec.data
            ctx == lastCall.ctx
            custom == GetCustomFields(ctx).fields
            hookKeys == {CallerFileFieldKey, CallerFuncFieldKey}
        IN  IF lastCall.aware
            THEN /\ \A k \in PredefinedKeys :
                       GetString(ctx, k).ok =>
                           k \in DOMAIN data /\ data[k] = Str(GetString(ctx, k).val)
                 /\ \A k \in DOMAIN custom :
                       k \in DOMAIN data /\ data[k] = Str(custom[k])
                 /\ \A k \in DOMAIN data \ hookKeys :
                       k \in DOMAIN custom \/ (k \in PredefinedKeys /\ GetString(ctx, k).ok)
            ELSE DOMAIN data \subseteq hookKeys

(***************************************************************************)
(* Caller reporting from the two entry points                              *)
(***************************************************************************)

MaxCallerRecords == 2

CallerConfigs ==
    {[DefaultConfig EXCEPT !.Level = "debug", !.ReportCaller = report] :
        report \in BOOLEAN}

InitCaller == InitProcess /\ fs = [p \in Paths |-> NoFile]

NextCaller ==
    \/ \E cfg \in CallerConfigs : CallInitGlobalLogger(1, cfg)
    \/ CallGetGlobalLogger(1)
    \/ \E level \in MethodLevels, stack \in UserStacks :
          Written < MaxCallerRecords /\ CallPackageLog(1, level, FALSE, Background, stack)
    \/ OnceDo(1)
    \/ OnceLock(1)
    \/ InitBody(1)
    \/ OnceDone(1)
    \/ Return(1)
    \/ \E l \in DOMAIN loggers, level \in MethodLevels, stack \in UserStacks :
          Written < MaxCallerRecords /\ LogMethod(1, l, level, FALSE, Background, stack)

SpecCaller == InitCaller /\ [][NextCaller]_vars

\* C10: with caller reporting on, every emitted record names the file, line and
\* function of the frame that called the logging entry point, through the
\* package-level function and through the method alike.
C10_CallSite ==
    (lastCall.emitted /\ EngineOf(lastCall.l).hooks # <<>>) =>
        /\ CallerFileFieldKey \in DOMAIN lastCall.rec.data
        /\ lastCall.rec.data[CallerFileFieldKey] =
               <<"file://", lastCall.site.file, ":", lastCall.site.line>>
        /\ lastCall.rec.data[CallerFuncFieldKey] = lastCall.site.short \o <<"()">>

====
